---- MODULE Spec2Model ----
(***************************************************************************)
(* apply_git_summary: src/main.rs.                                         *)
(*                                                                         *)
(* main() parses the output of `git diff --format= --summary` into five    *)
(* hash maps and a rename manifest, then annotates every path read from    *)
(* stdin with a glyph, a colour and (for renames) the similarity.          *)
(*                                                                         *)
(* Text is modelled as sequences of one-character strings, so that trim,   *)
(* starts_with, find, rfind, byte slicing and replace are computed the way *)
(* the Rust standard library computes them (all text here is ASCII, so a   *)
(* byte index is a character index).  Indices are 0-based and ranges are   *)
(* half-open, as in Rust.                                                  *)
(*                                                                         *)
(* A slice whose start is past its end panics; the parser then stops with  *)
(* pc = "panicked".  Lines that cannot be read (lines.flatten(), and the   *)
(* `if let Ok(line)` of the stdin loop) are dropped by the code before any *)
(* state changes and are not part of report / stdin_lines.  Writes to the  *)
(* manifest and to stdout are taken to succeed.  The styled path printed   *)
(* by print_lscolor_path is kept as the path itself.                       *)
(***************************************************************************)
EXTENDS Integers, Sequences, FiniteSets, TLC

VARIABLES
    pc,           \* position of main(): start, create, open, parse,
                  \* classify, done, exit (early return), panicked
    argc,         \* args.len()
    can_create,   \* whether File::create(summary_out) succeeds
    can_open,     \* whether File::open(summary_in) succeeds
    file_out,     \* the manifest file: absent, stale (older content), created
    writer,       \* records written to the manifest through `writer`
    report,       \* lines of summary_in consumed so far
    create_map, delete_map, from_map, to_map, percent_map,
    stdin_lines,  \* lines of stdin consumed so far
    stdout        \* rendered lines

vars == <<pc, argc, can_create, can_open, file_out, writer, report,
          create_map, delete_map, from_map, to_map, percent_map,
          stdin_lines, stdout>>

tables == <<create_map, delete_map, from_map, to_map, percent_map>>

---------------------------------------------------------------------------
(* Bounds *)

MaxReport == 2      \* report lines read in one run
MaxPaths == 2       \* stdin lines read in one run

---------------------------------------------------------------------------
(* Constants of main.rs *)

T_CREATE == <<"c","r","e","a","t","e"," ","m","o","d","e"," ">>
T_DELETE == <<"d","e","l","e","t","e"," ","m","o","d","e"," ">>
T_RENAME == <<"r","e","n","a","m","e"," ">>

LARROW == "LARROW"
RARROW == "RARROW"
SQUARE == "SQUARE"
CIRCLE == "CIRCLE"

GREEN == "32"
RED == "31"
BLUE == "34"

---------------------------------------------------------------------------
(* str primitives *)

NONE == -1          \* Option::None of find / rfind

IsWhite(c) == c \in {" ", "\t", "\r", "\n"}

\* str::trim
Trim(s) ==
    LET keep == {i \in 1..Len(s) : ~IsWhite(s[i])}
    IN  IF keep = {} THEN <<>>
        ELSE LET lo == CHOOSE i \in keep : \A j \in keep : i <= j
                 hi == CHOOSE i \in keep : \A j \in keep : j <= i
             IN  SubSeq(s, lo, hi)

\* s[a..b]
Slice(s, a, b) == SubSeq(s, a + 1, b)

\* s[a..]
SliceFrom(s, a) == SubSeq(s, a + 1, Len(s))

\* pat occurs in s at byte offset i
MatchAt(s, pat, i) ==
    /\ i + Len(pat) <= Len(s)
    /\ SubSeq(s, i + 1, i + Len(pat)) = pat

\* str::starts_with
StartsWith(s, pat) == MatchAt(s, pat, 0)

\* str::find: offset of the first occurrence
Find(s, pat) ==
    LET hits == {i \in 0..Len(s) : MatchAt(s, pat, i)}
    IN  IF hits = {} THEN NONE
        ELSE CHOOSE i \in hits : \A j \in hits : i <= j

\* str::rfind: offset of the last occurrence
RFind(s, pat) ==
    LET hits == {i \in 0..Len(s) : MatchAt(s, pat, i)}
    IN  IF hits = {} THEN NONE
        ELSE CHOOSE i \in hits : \A j \in hits : j <= i

\* str::replace("//", "/"): non-overlapping matches, left to right
RECURSIVE ReplaceSlashes(_)
ReplaceSlashes(s) ==
    IF Len(s) < 2 THEN s
    ELSE IF s[1] = "/" /\ s[2] = "/"
         THEN <<"/">> \o ReplaceSlashes(SubSeq(s, 3, Len(s)))
         ELSE <<s[1]>> \o ReplaceSlashes(Tail(s))

\* HashMap::insert
Insert(m, k, v) == [x \in DOMAIN m \cup {k} |-> IF x = k THEN v ELSE m[x]]

EmptyMap == [x \in {} |-> <<>>]

---------------------------------------------------------------------------
(* Inputs *)

\* rename lines in git's two notations, from the parts of a rename
BracketLine(q) ==
    <<" ">> \o T_RENAME \o q[1] \o <<"{">> \o q[2] \o <<" ","=",">"," ">>
        \o q[3] \o <<"}">> \o q[4] \o <<" ","(">> \o q[5] \o <<")">>

PlainLine(q) ==
    <<" ">> \o T_RENAME \o q[1] \o q[2] \o q[4] \o <<" ","=",">"," ">>
        \o q[1] \o q[3] \o q[4] \o <<" ","(">> \o q[5] \o <<")">>

\* <<prefix, from, to, suffix, percent>>
Q_leaf == << <<"a","/">>, <<"x">>, <<"y">>, <<"/","b",".","t","x","t">>, <<"9","0","%">> >>
Q_into == << <<"s","r","c","/">>, <<>>, <<"s","u","b">>, <<"/","f",".","c">>, <<"1","0","0","%">> >>
Q_outof == << <<"t","/">>, <<"c">>, <<>>, <<"/","j">>, <<"5","3","%">> >>

Q_dir == << <<>>, <<"o">>, <<"n">>, <<"/","m">>, <<"7","%">> >>

Shorthands == {Q_leaf, Q_into, Q_outof, Q_dir}

L_create_b == <<" ","c","r","e","a","t","e"," ","m","o","d","e"," ","1","0","0","6","4","4"," ","b">>
L_delete_b == <<" ","d","e","l","e","t","e"," ","m","o","d","e"," ","1","0","0","6","4","4"," ","b">>
L_delete_nopath == <<" ","d","e","l","e","t","e"," ","m","o","d","e"," ","1","0","0","6","4","4">>
L_rename_a_b_90 == <<" ","r","e","n","a","m","e"," ","a"," ","=",">"," ","b"," ","(","9","0","%",")">>
L_rename_a_c == <<" ","r","e","n","a","m","e"," ","a"," ","=",">"," ","c">>
L_rename_nospace == <<" ","r","e","n","a","m","e"," ","s","r","c","/","{","=",">"," ","s","u","b","}","/","f",".","c"," ","(","1","0","0","%",")">>
L_rename_brace_after == <<" ","r","e","n","a","m","e"," ","a"," ","=",">"," ","{","b","}">>
L_rename_paren_before == <<" ","r","e","n","a","m","e"," ","a",")"," ","=",">"," ","b"," ","(","c">>
L_rename_foo == <<" ","r","e","n","a","m","e"," ","f","o","o">>
L_other == <<" ","3"," ","f","i","l","e","s"," ","c","h","a","n","g","e","d">>

\* lines the report may hold
ReportLines ==
    {L_create_b, L_delete_b, L_delete_nopath, L_rename_a_b_90, L_rename_a_c,
     L_rename_nospace, L_rename_brace_after, L_rename_paren_before,
     L_rename_foo, L_other}
    \cup {BracketLine(q) : q \in Shorthands}
    \cup {PlainLine(q) : q \in Shorthands}

\* lines stdin may hold
PathLines == { <<"a">>, <<"b">>, <<" ","c","\t">> }

---------------------------------------------------------------------------
(* Report parser, main.rs 84-173 *)

\* FileName started at the space instead of after it
FileName_FromSpace(ln, idx) == SliceFrom(ln, idx)

\* the file name after the mode token (idx is the offset of the first space)
FileName(ln, idx) == SliceFrom(ln, idx + 1)

\* "parse percent part first"
ExtractPercent(ln) ==
    LET p1 == RFind(ln, <<" ","(">>)
        p2 == RFind(ln, <<")">>)
    IN  IF p1 # NONE /\ p2 # NONE
        THEN [percent |-> IF p2 > p1 THEN Slice(ln, p1 + 2, p2) ELSE <<>>,
              ln |-> Slice(ln, 0, p1)]
        ELSE [percent |-> <<>>, ln |-> ln]

\* the slices of the {from => to} notation are in range
BracketInRange(lbracket, rbracket, split) ==
    /\ lbracket + 1 <= split
    /\ split + 4 <= rbracket

\* BracketPaths without the postfix
BracketPaths_NoPostfix(ln, lbracket, rbracket, split) ==
    LET prefix == Slice(ln, 0, lbracket)
        from == Slice(ln, lbracket + 1, split)
        to == Slice(ln, split + 4, rbracket)
    IN  [path_from |-> ReplaceSlashes(prefix \o from),
         path_to |-> ReplaceSlashes(prefix \o to)]

\* BracketPaths without the replace("//", "/")
BracketPaths_NoCollapse(ln, lbracket, rbracket, split) ==
    LET prefix == Slice(ln, 0, lbracket)
        from == Slice(ln, lbracket + 1, split)
        to == Slice(ln, split + 4, rbracket)
        postfix == SliceFrom(ln, rbracket + 1)
    IN  [path_from |-> prefix \o from \o postfix,
         path_to |-> prefix \o to \o postfix]

\* prefix{from => to}postfix
BracketPaths(ln, lbracket, rbracket, split) ==
    LET prefix == Slice(ln, 0, lbracket)
        from == Slice(ln, lbracket + 1, split)
        to == Slice(ln, split + 4, rbracket)
        postfix == SliceFrom(ln, rbracket + 1)
    IN  [path_from |-> ReplaceSlashes(prefix \o from \o postfix),
         path_to |-> ReplaceSlashes(prefix \o to \o postfix)]

\* from => to
PlainPaths(ln, split) ==
    [path_from |-> Slice(ln, 0, split), path_to |-> SliceFrom(ln, split + 4)]

\* "parse rename pattern"
RenamePattern(ln) ==
    LET lb == Find(ln, <<"{">>)
        rb == Find(ln, <<"}">>)
        sp == Find(ln, <<" ","=",">"," ">>)
    IN  IF lb # NONE /\ rb # NONE /\ sp # NONE
        THEN IF BracketInRange(lb, rb, sp)
             THEN [kind |-> "pair", paths |-> BracketPaths(ln, lb, rb, sp)]
             ELSE [kind |-> "panic"]
        ELSE IF sp # NONE
             THEN [kind |-> "pair", paths |-> PlainPaths(ln, sp)]
             ELSE [kind |-> "none"]

\* to_map.insert(path_from, path_to)
ToMapInsert(m, path_from, path_to) == Insert(m, path_from, path_to)

\* FromMapInsert keyed by the origin
FromMapInsert_ByOrigin(m, path_from, path_to) == Insert(m, path_from, path_to)

\* from_map.insert(path_to, path_from)
FromMapInsert(m, path_from, path_to) == Insert(m, path_to, path_from)

\* InsertPercent without the percent.len() > 0 test
InsertPercent_Unguarded(m, path_from, path_to, percent) ==
    Insert(Insert(m, path_from, percent), path_to, percent)

\* percent_map after a rename
InsertPercent(m, path_from, path_to, percent) ==
    IF Len(percent) > 0
    THEN Insert(Insert(m, path_from, percent), path_to, percent)
    ELSE m

\* Buff with the destination first
Buff_DestFirst(path_from, path_to, percent) ==
    path_to \o <<":",":">> \o path_from \o <<":",":">> \o percent \o <<"\n">>

\* format!("{}::{}::{}\n", path_from, path_to, percent)
Buff(path_from, path_to, percent) ==
    path_from \o <<":",":">> \o path_to \o <<":",":">> \o percent \o <<"\n">>

---------------------------------------------------------------------------
(* Path classifier, main.rs 175-209 *)

\* Render with the rename-destination test first
Render_RenamedInFirst(ln) ==
    IF ln \in DOMAIN from_map /\ ln \in DOMAIN percent_map
    THEN [color |-> GREEN, glyph |-> RARROW, path |-> ln,
          percent |-> <<percent_map[ln]>>]
    ELSE IF ln \in DOMAIN create_map
    THEN [color |-> GREEN, glyph |-> CIRCLE, path |-> ln, percent |-> <<>>]
    ELSE IF ln \in DOMAIN delete_map
    THEN [color |-> RED, glyph |-> CIRCLE, path |-> ln, percent |-> <<>>]
    ELSE IF ln \in DOMAIN to_map /\ ln \in DOMAIN percent_map
    THEN [color |-> RED, glyph |-> LARROW, path |-> ln,
          percent |-> <<percent_map[ln]>>]
    ELSE [color |-> BLUE, glyph |-> SQUARE, path |-> ln, percent |-> <<>>]

\* the line printed for the trimmed path ln
Render(ln) ==
    IF ln \in DOMAIN create_map
    THEN [color |-> GREEN, glyph |-> CIRCLE, path |-> ln, percent |-> <<>>]
    ELSE IF ln \in DOMAIN delete_map
    THEN [color |-> RED, glyph |-> CIRCLE, path |-> ln, percent |-> <<>>]
    ELSE IF ln \in DOMAIN to_map /\ ln \in DOMAIN percent_map
    THEN [color |-> RED, glyph |-> LARROW, path |-> ln,
          percent |-> <<percent_map[ln]>>]
    ELSE IF ln \in DOMAIN from_map /\ ln \in DOMAIN percent_map
    THEN [color |-> GREEN, glyph |-> RARROW, path |-> ln,
          percent |-> <<percent_map[ln]>>]
    ELSE [color |-> BLUE, glyph |-> SQUARE, path |-> ln, percent |-> <<>>]

---------------------------------------------------------------------------
(* main *)

Init ==
    /\ pc = "start"
    /\ argc \in 1..4
    /\ can_create \in BOOLEAN
    /\ can_open \in BOOLEAN
    /\ file_out \in {"absent", "stale"}
    /\ writer = <<>>
    /\ report = <<>>
    /\ create_map = EmptyMap
    /\ delete_map = EmptyMap
    /\ from_map = EmptyMap
    /\ to_map = EmptyMap
    /\ percent_map = EmptyMap
    /\ stdin_lines = <<>>
    /\ stdout = <<>>

\* main.rs 62-68
CheckArgs ==
    /\ pc = "start"
    /\ pc' = IF argc = 3 THEN "create" ELSE "exit"
    /\ UNCHANGED <<argc, can_create, can_open, file_out, writer, report,
                   tables, stdin_lines, stdout>>

\* main.rs 70-76
CreateOut ==
    /\ pc = "create"
    /\ IF can_create
       THEN pc' = "open" /\ file_out' = "created"
       ELSE pc' = "exit" /\ file_out' = file_out
    /\ UNCHANGED <<argc, can_create, can_open, writer, report, tables,
                   stdin_lines, stdout>>

\* main.rs 84, 171-173
OpenIn ==
    /\ pc = "open"
    /\ pc' = IF can_open THEN "parse" ELSE "exit"
    /\ UNCHANGED <<argc, can_create, can_open, file_out, writer, report,
                   tables, stdin_lines, stdout>>

\* main.rs 85-170, one iteration
ParseLine(line) ==
    /\ pc = "parse"
    /\ Len(report) < MaxReport
    /\ report' = Append(report, line)
    /\ LET ln == Trim(line) IN
       IF StartsWith(ln, T_CREATE) THEN
           LET rest == SliceFrom(ln, Len(T_CREATE))
               idx == Find(rest, <<" ">>)
           IN  /\ create_map' = IF idx # NONE
                                THEN Insert(create_map, FileName(rest, idx), "true")
                                ELSE create_map
               /\ UNCHANGED <<pc, writer, delete_map, from_map, to_map, percent_map>>
       ELSE IF StartsWith(ln, T_DELETE) THEN
           LET rest == SliceFrom(ln, Len(T_DELETE))
               idx == Find(rest, <<" ">>)
           IN  /\ delete_map' = IF idx # NONE
                                THEN Insert(delete_map, FileName(rest, idx), "true")
                                ELSE delete_map
               /\ UNCHANGED <<pc, writer, create_map, from_map, to_map, percent_map>>
       ELSE IF StartsWith(ln, T_RENAME) THEN
           LET ep == ExtractPercent(SliceFrom(ln, Len(T_RENAME)))
               rp == RenamePattern(ep.ln)
           IN  IF rp.kind = "pair" THEN
                   /\ to_map' = ToMapInsert(to_map, rp.paths.path_from, rp.paths.path_to)
                   /\ from_map' = FromMapInsert(from_map, rp.paths.path_from, rp.paths.path_to)
                   /\ percent_map' = InsertPercent(percent_map, rp.paths.path_from,
                                                   rp.paths.path_to, ep.percent)
                   /\ writer' = Append(writer, Buff(rp.paths.path_from,
                                                    rp.paths.path_to, ep.percent))
                   /\ UNCHANGED <<pc, create_map, delete_map>>
               ELSE IF rp.kind = "panic" THEN
                   /\ pc' = "panicked"
                   /\ UNCHANGED <<writer, tables>>
               ELSE UNCHANGED <<pc, writer, tables>>
       ELSE UNCHANGED <<pc, writer, tables>>
    /\ UNCHANGED <<argc, can_create, can_open, file_out, stdin_lines, stdout>>

\* main.rs 85, the report is exhausted
EndOfReport ==
    /\ pc = "parse"
    /\ pc' = "classify"
    /\ UNCHANGED <<argc, can_create, can_open, file_out, writer, report,
                   tables, stdin_lines, stdout>>

\* main.rs 176-208, one iteration
ClassifyLine(line) ==
    /\ pc = "classify"
    /\ Len(stdin_lines) < MaxPaths
    /\ stdin_lines' = Append(stdin_lines, line)
    /\ stdout' = Append(stdout, Render(Trim(line)))
    /\ UNCHANGED <<pc, argc, can_create, can_open, file_out, writer, report,
                   tables>>

\* main.rs 176, stdin is exhausted
EndOfInput ==
    /\ pc = "classify"
    /\ pc' = "done"
    /\ UNCHANGED <<argc, can_create, can_open, file_out, writer, report,
                   tables, stdin_lines, stdout>>

Next ==
    \/ CheckArgs
    \/ CreateOut
    \/ OpenIn
    \/ \E line \in ReportLines : ParseLine(line)
    \/ EndOfReport
    \/ \E line \in PathLines : ClassifyLine(line)
    \/ EndOfInput

Spec == Init /\ [][Next]_vars

---------------------------------------------------------------------------
(* Vocabulary of the properties *)

Last(s) == s[Len(s)]

\* the ClassificationResult a rendered line stands for
Class(r) ==
    IF r.glyph = CIRCLE /\ r.color = GREEN THEN "Created"
    ELSE IF r.glyph = CIRCLE /\ r.color = RED THEN "Deleted"
    ELSE IF r.glyph = LARROW /\ r.color = RED THEN "RenamedAway"
    ELSE IF r.glyph = RARROW /\ r.color = GREEN THEN "RenamedIn"
    ELSE IF r.glyph = SQUARE /\ r.color = BLUE THEN "Unchanged"
    ELSE "none"

\* the rename a report line is parsed into: a set of at most one triple
ParsedRename(line) ==
    LET ln == Trim(line) IN
    IF ~StartsWith(ln, T_RENAME) THEN {}
    ELSE LET ep == ExtractPercent(SliceFrom(ln, Len(T_RENAME)))
             rp == RenamePattern(ep.ln)
         IN  IF rp.kind = "pair"
             THEN {[origin |-> rp.paths.path_from, dest |-> rp.paths.path_to,
                    percent |-> ep.percent]}
             ELSE {}

\* ParsedRename of every line the report may hold
RenameOf == [line \in ReportLines |-> ParsedRename(line)]

\* the renames parsed so far
Renames == UNION {RenameOf[report[i]] : i \in 1..Len(report)}

\* a manifest line
Rec(origin, dest, percent) ==
    origin \o <<":",":">> \o dest \o <<":",":">> \o percent \o <<"\n">>

P_a == <<"a">>
P_b == <<"b">>
P_c == <<"c">>
PCT_90 == <<"9","0","%">>
PCT_100 == <<"1","0","0","%">>
P_src_f == <<"s","r","c","/","f",".","c">>
P_src_sub_f == <<"s","r","c","/","s","u","b","/","f",".","c">>
P_axb == <<"a","/","x","/","b",".","t","x","t">>
P_ayb == <<"a","/","y","/","b",".","t","x","t">>

---------------------------------------------------------------------------
(* C1 *)

\* C1: every path read from stdin is rendered exactly once, with the
\* classification of the first matching rule in the order created,
\* deleted, (to_map and percent_map), (from_map and percent_map),
\* unchanged; a path in create_map that is also a rename destination
\* with a percentage is Created.
C1_Precedence ==
    /\ Len(stdout) = Len(stdin_lines)
    /\ \A i \in 1..Len(stdout) :
        LET r == stdout[i]
            p == r.path
            inC == p \in DOMAIN create_map
            inD == p \in DOMAIN delete_map
            inAway == p \in DOMAIN to_map /\ p \in DOMAIN percent_map
            inIn == p \in DOMAIN from_map /\ p \in DOMAIN percent_map
        IN  /\ p = Trim(stdin_lines[i])
            /\ Class(r) \in {"Created", "Deleted", "RenamedAway", "RenamedIn",
                             "Unchanged"}
            /\ Class(r) = "Created" <=> inC
            /\ Class(r) = "Deleted" <=> ~inC /\ inD
            /\ Class(r) = "RenamedAway" <=> ~inC /\ ~inD /\ inAway
            /\ Class(r) = "RenamedIn" <=> ~inC /\ ~inD /\ ~inAway /\ inIn
            /\ Class(r) = "Unchanged" <=> ~inC /\ ~inD /\ ~inAway /\ ~inIn
            /\ Class(r) \in {"RenamedAway", "RenamedIn"}
                   => r.percent = <<percent_map[p]>>
            /\ Class(r) \in {"Created", "Deleted", "Unchanged"}
                   => r.percent = <<>>

\* a created path that is also a rename destination with a percentage
\* has been rendered as Created
C1_Witness ==
    \E i \in 1..Len(stdout) :
        /\ stdout[i].path \in DOMAIN create_map
        /\ stdout[i].path \in DOMAIN from_map
        /\ stdout[i].path \in DOMAIN percent_map
        /\ Class(stdout[i]) = "Created"

---------------------------------------------------------------------------
(* C2 *)

Inverse ==
    /\ \A o \in DOMAIN to_map :
        to_map[o] \in DOMAIN from_map /\ from_map[to_map[o]] = o
    /\ \A d \in DOMAIN from_map :
        from_map[d] \in DOMAIN to_map /\ to_map[from_map[d]] = d

\* no two parsed renames have the same origin with different destinations
\* or the same destination with different origins
NoSharedEnd ==
    \A r1, r2 \in Renames : (r1.origin = r2.origin) <=> (r1.dest = r2.dest)

\* C2 as stated: after any sequence of report lines, to_map[o] = d if and
\* only if from_map[d] = o.
C2_InverseAlways == Inverse

\* C2 as amended: to_map and from_map are inverse relations as long as no
\* two parsed rename lines share an origin or a destination.
C2_InverseUnlessShared == NoSharedEnd => Inverse

\* two different renames have been parsed and the maps are inverse
C2_Witness ==
    /\ pc = "classify"
    /\ NoSharedEnd
    /\ Cardinality(Renames) >= 2
    /\ Cardinality(DOMAIN to_map) >= 2
    /\ Inverse

---------------------------------------------------------------------------
(* C3 *)

\* C3: no report line aborts the parser; every line is recorded or skipped
\* and main goes on to the next line and to the classification.
C3_NoLineAborts == pc # "panicked"

---------------------------------------------------------------------------
(* C4 *)

\* C4 as stated: the paths of a rename line without a percentage are in
\* to_map / from_map and are rendered Unchanged, whatever else the report
\* holds.
C4_UnchangedAlways ==
    \A r \in Renames : r.percent = <<>> =>
        /\ r.origin \in DOMAIN to_map
        /\ r.dest \in DOMAIN from_map
        /\ \A i \in 1..Len(stdout) :
            stdout[i].path \in {r.origin, r.dest}
                => Class(stdout[i]) = "Unchanged"

\* C4 as amended: a rename line without a percentage puts its paths in
\* to_map / from_map and adds no percent_map entry (every entry is the
\* percentage of a rename line that has one); its paths are rendered
\* Unchanged unless another line put them in create_map, delete_map or
\* percent_map.
C4_UnchangedUnlessOtherLine ==
    /\ \A r \in Renames : r.percent = <<>> =>
        /\ r.origin \in DOMAIN to_map
        /\ r.dest \in DOMAIN from_map
        /\ \A i \in 1..Len(stdout) :
            LET p == stdout[i].path IN
            (/\ p \in {r.origin, r.dest}
             /\ p \notin DOMAIN create_map
             /\ p \notin DOMAIN delete_map
             /\ p \notin DOMAIN percent_map)
                => Class(stdout[i]) = "Unchanged"
    /\ \A p \in DOMAIN percent_map :
        \E r \in Renames :
            /\ r.percent # <<>>
            /\ p \in {r.origin, r.dest}
            /\ percent_map[p] = r.percent

\* the origin of a rename without a percentage has been rendered Unchanged
C4_Witness ==
    \E r \in Renames : \E i \in 1..Len(stdout) :
        /\ r.percent = <<>>
        /\ stdout[i].path = r.origin
        /\ r.origin \in DOMAIN to_map
        /\ Class(stdout[i]) = "Unchanged"

---------------------------------------------------------------------------
(* C5 *)

\* " delete mode 100644 <path>"
DeleteLine(path) ==
    <<" ","d","e","l","e","t","e"," ","m","o","d","e"," ">>
        \o <<"1","0","0","6","4","4"," ">> \o path

\* the paths of the well-formed deletion lines read so far
DeletedPaths ==
    {p \in {P_a, P_b, P_c} : \E i \in 1..Len(report) : report[i] = DeleteLine(p)}

\* C5 as stated: the path of a well-formed deletion line is in delete_map
\* and is rendered Deleted.
C5_DeletedAlways ==
    \A p \in DeletedPaths :
        /\ p \in DOMAIN delete_map
        /\ \A i \in 1..Len(stdout) :
            stdout[i].path = p => Class(stdout[i]) = "Deleted"

\* C5 as amended: the path of a well-formed deletion line is in delete_map
\* and is rendered Deleted, unless it is in create_map too, and then it is
\* rendered Created.
C5_DeletedUnlessCreated ==
    \A p \in DeletedPaths :
        /\ p \in DOMAIN delete_map
        /\ \A i \in 1..Len(stdout) :
            stdout[i].path = p =>
                Class(stdout[i]) =
                    IF p \in DOMAIN create_map THEN "Created" ELSE "Deleted"

\* the path of a deletion line has been rendered Deleted
C5_Witness ==
    \E p \in DeletedPaths : \E i \in 1..Len(stdout) :
        stdout[i].path = p /\ Class(stdout[i]) = "Deleted"

---------------------------------------------------------------------------
(* C6 *)

Origin(q) == q[1] \o q[2] \o q[4]
Dest(q) == q[1] \o q[3] \o q[4]

NoDoubleSlash(s) == \A i \in 1..(Len(s) - 1) : ~(s[i] = "/" /\ s[i + 1] = "/")

\* the last two report lines are the two notations of the rename q
BothForms(q) ==
    /\ Len(report) >= 2
    /\ {report[Len(report) - 1], Last(report)} = {BracketLine(q), PlainLine(q)}

\* C6 as stated: the bracketed line and the plain line of the same rename
\* give the same manifest record.
C6_SameTripleAlways ==
    \A q \in Shorthands : BothForms(q) =>
        /\ Len(writer) >= 2
        /\ writer[Len(writer) - 1] = Last(writer)

\* C6 as amended: the bracketed line and the plain line of the same rename
\* give the same triple <<prefix from suffix, prefix to suffix, percent>>,
\* in the manifest and in the maps, when neither path holds a doubled
\* separator.
C6_SameTripleNoDoubleSlash ==
    \A q \in Shorthands :
        (BothForms(q) /\ NoDoubleSlash(Origin(q)) /\ NoDoubleSlash(Dest(q))) =>
            /\ Len(writer) >= 2
            /\ writer[Len(writer) - 1] = Rec(Origin(q), Dest(q), q[5])
            /\ Last(writer) = Rec(Origin(q), Dest(q), q[5])
            /\ Origin(q) \in DOMAIN to_map /\ to_map[Origin(q)] = Dest(q)
            /\ Dest(q) \in DOMAIN from_map /\ from_map[Dest(q)] = Origin(q)
            /\ Origin(q) \in DOMAIN percent_map /\ percent_map[Origin(q)] = q[5]
            /\ Dest(q) \in DOMAIN percent_map /\ percent_map[Dest(q)] = q[5]

\* a/{x => y}/b.txt and a/x/b.txt => a/y/b.txt have both been parsed
C6_Witness ==
    /\ BothForms(Q_leaf)
    /\ Last(writer) = Rec(P_axb, P_ayb, PCT_90)
    /\ P_axb \in DOMAIN to_map

---------------------------------------------------------------------------
(* C7 *)

\* the last line read gave the rename origin => dest with this percentage
Yields(origin, dest, percent) ==
    /\ origin \in DOMAIN to_map /\ to_map[origin] = dest
    /\ dest \in DOMAIN from_map /\ from_map[dest] = origin
    /\ origin \in DOMAIN percent_map /\ percent_map[origin] = percent
    /\ dest \in DOMAIN percent_map /\ percent_map[dest] = percent
    /\ writer # <<>> /\ Last(writer) = Rec(origin, dest, percent)

\* C7 as stated: `rename src/{=> sub}/f.c (100%)` yields origin src/f.c,
\* dest src/sub/f.c and percentage 100%.
C7_NoSpaceLineYields ==
    (report # <<>> /\ Last(report) = L_rename_nospace)
        => Yields(P_src_f, P_src_sub_f, PCT_100)

\* C7 as amended: `rename src/{ => sub}/f.c (100%)`, the empty from segment
\* written as git writes it, yields origin src/f.c (the doubled separator
\* collapsed), dest src/sub/f.c and percentage 100%; the line
\* `rename src/{=> sub}/f.c (100%)` holds no " => " and adds nothing.
C7_EmptyFromYields ==
    /\ (report # <<>> /\ Last(report) = BracketLine(Q_into))
           => Yields(P_src_f, P_src_sub_f, PCT_100)
    /\ report = <<L_rename_nospace>>
           => /\ writer = <<>>
              /\ to_map = EmptyMap /\ from_map = EmptyMap
              /\ percent_map = EmptyMap
              /\ create_map = EmptyMap /\ delete_map = EmptyMap

\* src/{ => sub}/f.c has been parsed
C7_Witness ==
    /\ report # <<>> /\ Last(report) = BracketLine(Q_into)
    /\ Yields(P_src_f, P_src_sub_f, PCT_100)

---------------------------------------------------------------------------
(* C8 *)

\* what one step does to the manifest
ManifestStep ==
    /\ report' = report => writer' = writer
    /\ report' # report =>
        \/ /\ writer' = writer
           /\ to_map' = to_map
           /\ from_map' = from_map
           /\ percent_map' = percent_map
        \/ /\ StartsWith(Trim(Last(report')), T_RENAME)
           /\ \E o \in DOMAIN to_map' :
              \E p \in {<<>>} \cup {percent_map'[x] : x \in {o} \cap DOMAIN percent_map'} :
                LET d == to_map'[o] IN
                /\ writer' = Append(writer, Rec(o, d, p))
                /\ DOMAIN to_map' = DOMAIN to_map \cup {o}
                /\ DOMAIN from_map' = DOMAIN from_map \cup {d}
                /\ from_map'[d] = o
                /\ IF p = <<>>
                   THEN percent_map' = percent_map
                   ELSE /\ d \in DOMAIN percent_map'
                        /\ percent_map'[o] = p
                        /\ percent_map'[d] = p

\* C8: the manifest gets one record per successfully parsed rename line, in
\* the order of the lines, and none for any other line; the record is the
\* origin, dest and percentage-or-empty put in to_map / from_map at that step.
C8_Manifest ==
    /\ [](Len(writer) = Cardinality({i \in 1..Len(report) : RenameOf[report[i]] # {}}))
    /\ [][ManifestStep]_vars

\* two rename lines have been parsed, the second without a percentage
C8_Witness ==
    /\ report = <<L_rename_a_b_90, L_rename_a_c>>
    /\ writer = <<Rec(P_a, P_b, PCT_90), Rec(P_a, P_c, <<>>)>>

---------------------------------------------------------------------------
(* C9 *)

\* C9: a fatal setup failure ends the run with nothing rendered and the
\* manifest file neither created nor modified.
C9_FatalNoSideEffect ==
    pc = "exit" => stdout = <<>> /\ file_out # "created"

---------------------------------------------------------------------------
(* C10 *)

\* C10: percentage extraction leaves the text after "rename " as it is
\* when the last ")" is not after the last " (", and otherwise removes
\* only the " (percentage)" suffix.
C10_OnlySuffixRemoved ==
    (report # <<>> /\ StartsWith(Trim(Last(report)), T_RENAME)) =>
        LET body == SliceFrom(Trim(Last(report)), Len(T_RENAME))
            open == RFind(body, <<" ","(">>)
            close == RFind(body, <<")">>)
            captured == open # NONE /\ close # NONE /\ close > open
            ep == ExtractPercent(body)
        IN  IF captured
            THEN body = ep.ln \o <<" ","(">> \o ep.percent \o <<")">>
            ELSE ep.ln = body /\ ep.percent = <<>>

====
